---- MODULE Spec2Model ----
(***************************************************************************)
(* Model of src/harness/utils/resp2mask.py: the conversion library         *)
(* (exp_range_from, exp_freq_info_from, exp_chan_info_from, exp_resp_from, *)
(* exp_msg_from) and the conversion script main().                         *)
(*                                                                         *)
(* Python values are represented as follows.                               *)
(*   None / a value   : the empty tuple <<>> / the one-element tuple <<v>> *)
(*   a dict           : a function whose DOMAIN is the set of present keys *)
(*   a list           : a sequence                                         *)
(*   a number         : [t, k, v] with t the Python type ("float" or       *)
(*                      "Decimal"), k one of "ninf", "fin", "pinf", "nan"  *)
(*                      and v the (integer) value of a finite number       *)
(*   a string         : a sequence of one-character strings (request ids)  *)
(*                      or of path tokens (paths and file names)           *)
(***************************************************************************)
EXTENDS Integers, Sequences, FiniteSets, TLC

VARIABLES
  pc,         \* position of main(): "start", "next_src", "files", "done", "exit1", "crashed"
  cfg,        \* mask2resp_cfg, the dict loaded from the TOML configuration
  assume_yes, \* args.assume_yes or args.quiet
  src_idx,    \* number of entries of args.src the outer loop has taken
  src,        \* the current entry of args.src: [isdir, path]
  file_idx,   \* number of entries of src_files the inner loop has taken
  mask_set,   \* mask_set of main()
  mask_obj,   \* mask_obj of main(), between the merge and the end of the iteration
  converted,  \* history: the masks in the order and the form they were appended to mask_set
  reports,    \* the skip diagnostics printed for the current entry of args.src
  result,     \* how the last iteration of the outer loop ended, and the file it wrote
  call        \* the last call made to the conversion library, with its return value

vars == <<pc, cfg, assume_yes, src_idx, src, file_idx, mask_set, mask_obj,
          converted, reports, result, call>>

driver_vars == <<pc, cfg, assume_yes, src_idx, src, file_idx, mask_set, mask_obj,
                 converted, reports, result>>

(***************************************************************************)
(* Bounds of the model.                                                    *)
(***************************************************************************)
MaxVal == 2      \* nominal values and limits range over -MaxVal .. MaxVal
MaxMargin == 2   \* margins range over -1 .. MaxMargin
MaxFiles == 3    \* files in one response set (directory)
MaxSrcs == 2     \* entries of args.src

(***************************************************************************)
(* Python values.                                                          *)
(***************************************************************************)
None == <<>>
Some(x) == <<x>>
IsNone(o) == o = <<>>
Val(o) == o[1]

DictGet(d, key, default) == IF key \in DOMAIN d THEN d[key] ELSE default

Float(n) == [t |-> "float", k |-> "fin", v |-> n]
FloatInf == [t |-> "float", k |-> "pinf", v |-> 0]
FloatNegInf == [t |-> "float", k |-> "ninf", v |-> 0]
DecimalInf == [t |-> "Decimal", k |-> "pinf", v |-> 0]
DecimalNegInf == [t |-> "Decimal", k |-> "ninf", v |-> 0]
DecimalZero == [t |-> "Decimal", k |-> "fin", v |-> 0]
DecimalNaN == [t |-> "Decimal", k |-> "nan", v |-> 0]

\* Decimal(str(x)): the text of x read as a Decimal.
DecimalOfStr(x) == [t |-> "Decimal", k |-> x.k, v |-> x.v]

\* float(d) of a Decimal.
FloatOf(d) == [t |-> "float", k |-> d.k, v |-> d.v]

\* a < b, across float and Decimal.
NumLt(a, b) ==
  CASE a.k = "nan" \/ b.k = "nan" -> FALSE
    [] a.k = "ninf" -> b.k # "ninf"
    [] a.k = "pinf" -> FALSE
    [] OTHER -> \/ b.k = "pinf"
                \/ b.k = "fin" /\ a.v < b.v

NumEq(a, b) == a.k # "nan" /\ a.k = b.k /\ a.v = b.v
NumLe(a, b) == NumLt(a, b) \/ NumEq(a, b)

\* Decimal a + b and a - b; inf - inf is InvalidOperation, shown as the NaN result.
DecimalNeg(a) ==
  CASE a.k = "pinf" -> DecimalNegInf
    [] a.k = "ninf" -> DecimalInf
    [] a.k = "nan" -> DecimalNaN
    [] OTHER -> [t |-> "Decimal", k |-> "fin", v |-> 0 - a.v]

DecimalAdd(a, b) ==
  CASE a.k = "nan" \/ b.k = "nan" -> DecimalNaN
    [] a.k = "fin" /\ b.k = "fin" -> [t |-> "Decimal", k |-> "fin", v |-> a.v + b.v]
    [] a.k = "fin" -> [t |-> "Decimal", k |-> b.k, v |-> 0]
    [] b.k = "fin" -> [t |-> "Decimal", k |-> a.k, v |-> 0]
    [] a.k = b.k -> [t |-> "Decimal", k |-> a.k, v |-> 0]
    [] OTHER -> DecimalNaN

DecimalSub(a, b) == DecimalAdd(a, DecimalNeg(b))

\* min(a, b) and max(a, b) of Python: the first argument unless the second is smaller (larger).
PyMin(a, b) == IF NumLt(b, a) THEN b ELSE a
PyMax(a, b) == IF NumLt(a, b) THEN b ELSE a

\* sorted([a, b, c])[1]
SortedMiddle(a, b, c) ==
  LET lo1 == IF NumLt(b, a) THEN b ELSE a
      hi1 == IF NumLt(b, a) THEN a ELSE b
  IN IF NumLt(c, lo1) THEN lo1
     ELSE IF NumLt(c, hi1) THEN c
     ELSE hi1

(***************************************************************************)
(* exp_range_from.  The result is [raised |-> TRUE] when the Decimal       *)
(* arithmetic signals InvalidOperation, and the ExpectedPowerRange         *)
(* otherwise.                                                              *)
(***************************************************************************)
def_margins == [upper |-> DecimalZero, lower |-> DecimalInf]
def_limits == [upper |-> DecimalInf, lower |-> DecimalNegInf]

ExpectedPowerRange(upperBound, nominal, lowerBound) ==
  [raised |-> FALSE, upperBound |-> upperBound, nominal |-> nominal,
   lowerBound |-> lowerBound]

RangeRaised == [raised |-> TRUE, upperBound |-> DecimalNaN, nominal |-> DecimalNaN,
                lowerBound |-> DecimalNaN]

\* exp_range_from without the final min()/max() against the limits
exp_range_from_unlimited(nominal_value, margins, limits) ==
  LET margin_upper == IF ~IsNone(margins)
                        THEN DecimalOfStr(DictGet(Val(margins), "upper", def_margins.upper))
                        ELSE def_margins.upper
      margin_lower == IF ~IsNone(margins)
                        THEN DecimalOfStr(DictGet(Val(margins), "lower", def_margins.lower))
                        ELSE def_margins.lower
      limit_upper == IF ~IsNone(limits)
                       THEN DictGet(Val(limits), "upper", def_limits.upper)
                       ELSE def_limits.upper
      limit_lower == IF ~IsNone(limits)
                       THEN DictGet(Val(limits), "lower", def_limits.lower)
                       ELSE def_limits.lower
      nominal == DecimalOfStr(SortedMiddle(limit_lower, nominal_value, limit_upper))
      sum == DecimalAdd(nominal, margin_upper)
      diff == DecimalSub(nominal, margin_lower)
  IN IF sum.k = "nan" \/ diff.k = "nan"
       THEN RangeRaised
       ELSE ExpectedPowerRange(FloatOf(sum), FloatOf(nominal), FloatOf(diff))

exp_range_from(nominal_value, margins, limits) ==
  LET margin_upper == IF ~IsNone(margins)
                        THEN DecimalOfStr(DictGet(Val(margins), "upper", def_margins.upper))
                        ELSE def_margins.upper
      margin_lower == IF ~IsNone(margins)
                        THEN DecimalOfStr(DictGet(Val(margins), "lower", def_margins.lower))
                        ELSE def_margins.lower
      limit_upper == IF ~IsNone(limits)
                       THEN DictGet(Val(limits), "upper", def_limits.upper)
                       ELSE def_limits.upper
      limit_lower == IF ~IsNone(limits)
                       THEN DictGet(Val(limits), "lower", def_limits.lower)
                       ELSE def_limits.lower
      nominal == DecimalOfStr(SortedMiddle(limit_lower, nominal_value, limit_upper))
      sum == DecimalAdd(nominal, margin_upper)
      diff == DecimalSub(nominal, margin_lower)
      upper_bound == FloatOf(sum)
      lower_bound == FloatOf(diff)
  IN IF sum.k = "nan" \/ diff.k = "nan"
       THEN RangeRaised
       ELSE ExpectedPowerRange(PyMin(upper_bound, limit_upper),
                               FloatOf(nominal),
                               PyMax(lower_bound, limit_lower))

(***************************************************************************)
(* exp_freq_info_from, exp_chan_info_from, exp_resp_from, exp_msg_from.    *)
(* kwargs is the dict of the keyword arguments of the call; a parameter    *)
(* the call does not name takes the default of the function's signature.   *)
(***************************************************************************)
KwOpt(kwargs, key) == IF key \in DOMAIN kwargs THEN Some(kwargs[key]) ELSE None

exp_freq_info_from(avail_info, margins, limits) ==
  [frequencyRange |-> avail_info.frequencyRange,
   maxPsd |-> exp_range_from(avail_info.maxPsd, margins, limits)]

exp_chan_info_from(avail_info, margins, limits) ==
  [globalOperatingClass |-> avail_info.globalOperatingClass,
   channelCfi |-> avail_info.channelCfi,
   maxEirp |-> [i \in 1..Len(avail_info.maxEirp) |->
                  exp_range_from(avail_info.maxEirp[i], margins, limits)]]

\* allowed_codes that never adds GENERAL_FAILURE
allowed_codes_strict(responseCode, expect_less_specific_error) ==
  <<responseCode>>

\* allowed_codes of exp_resp_from
allowed_codes(responseCode, expect_less_specific_error) ==
  IF expect_less_specific_error /\ responseCode \notin {"SUCCESS", "GENERAL_FAILURE"}
    THEN <<responseCode, "GENERAL_FAILURE">>
    ELSE <<responseCode>>

\* disallowed_codes of exp_resp_from
disallowed_codes(permit_any_code) ==
  IF permit_any_code THEN Some(<<>>) ELSE None

exp_resp_from(resp, kwargs) ==
  LET expect_less_specific_error == DictGet(kwargs, "expect_less_specific_error", TRUE)
      permit_any_code == DictGet(kwargs, "permit_any_code", FALSE)
      psd_margins == KwOpt(kwargs, "psd_margins")
      eirp_margins == KwOpt(kwargs, "eirp_margins")
      eirp_limits == KwOpt(kwargs, "eirp_limits")
      psd_limits == KwOpt(kwargs, "psd_limits")
      exclude_extensions == DictGet(kwargs, "exclude_extensions", TRUE)
  IN [requestId |-> resp.requestId,
      rulesetId |-> resp.rulesetId,
      expectedResponseCodes |->
        allowed_codes(resp.response.responseCode, expect_less_specific_error),
      availableFrequencyInfo |->
        [i \in 1..Len(resp.availableFrequencyInfo) |->
           exp_freq_info_from(resp.availableFrequencyInfo[i], psd_margins, psd_limits)],
      availableChannelInfo |->
        [i \in 1..Len(resp.availableChannelInfo) |->
           exp_chan_info_from(resp.availableChannelInfo[i], eirp_margins, eirp_limits)],
      vendorExtensions |-> IF exclude_extensions = FALSE THEN resp.vendorExtensions ELSE None,
      disallowedResponseCodes |-> disallowed_codes(permit_any_code)]

exp_msg_from(msg, kwargs) ==
  LET exclude_extensions == DictGet(kwargs, "exclude_extensions", TRUE)
      resp_kwargs == [exclude_extensions |-> exclude_extensions] @@ kwargs
  IN [version |-> msg.version,
      expectedSpectrumInquiryResponses |->
        [i \in 1..Len(msg.availableSpectrumInquiryResponses) |->
           exp_resp_from(msg.availableSpectrumInquiryResponses[i], resp_kwargs)],
      vendorExtensions |-> IF exclude_extensions = FALSE THEN msg.vendorExtensions ELSE None]

\* The call raised: some exp_range_from inside it raised.
RespRaised(r) ==
  \/ \E i \in 1..Len(r.availableFrequencyInfo) : r.availableFrequencyInfo[i].maxPsd.raised
  \/ \E i \in 1..Len(r.availableChannelInfo) :
       \E j \in 1..Len(r.availableChannelInfo[i].maxEirp) :
         r.availableChannelInfo[i].maxEirp[j].raised

MsgRaised(m) ==
  \E i \in 1..Len(m.expectedSpectrumInquiryResponses) :
    RespRaised(m.expectedSpectrumInquiryResponses[i])

(***************************************************************************)
(* Strings: request ids, paths and file names are sequences of characters. *)
(***************************************************************************)
UpperLetters == {"A", "B", "C", "E", "F", "M", "O", "Q", "R", "S", "T", "U"}
Digits == {"1", "2"}

\* The greatest index of c in s, 0 when c is not in s.
LastIndexOf(s, c) ==
  IF \E i \in 1..Len(s) : s[i] = c
    THEN CHOOSE i \in 1..Len(s) : s[i] = c /\ \A j \in (i + 1)..Len(s) : s[j] # c
    ELSE 0

\* os.path.basename(p)
basename(p) == SubSeq(p, LastIndexOf(p, "/") + 1, Len(p))

\* pathlib.Path(p).stem, for a path that does not end in "/"
stem(p) ==
  LET name == basename(p)
      dot == LastIndexOf(name, ".")
  IN IF dot > 1 /\ dot < Len(name) THEN SubSeq(name, 1, dot - 1) ELSE name

\* s.replace("_", ".")
replace_underscores(s) == [i \in 1..Len(s) |-> IF s[i] = "_" THEN "." ELSE s[i]]

\* re.fullmatch(r'REQ-([A-Z]{3})(\d+)', s): None, or the two groups.
wfa_fullmatch(s) ==
  IF /\ Len(s) >= 8
     /\ SubSeq(s, 1, 4) = <<"R", "E", "Q", "-">>
     /\ \A i \in 5..7 : s[i] \in UpperLetters
     /\ \A i \in 8..Len(s) : s[i] \in Digits
    THEN Some(<<SubSeq(s, 5, 7), SubSeq(s, 8, Len(s))>>)
    ELSE None

AFCS == <<"A", "F", "C", "S">>
MaskSuffix == <<"_", "m", "a", "s", "k", ".", "j", "s", "o", "n">>

\* src_gen_name of main()
src_gen_name(source) ==
  IF source.isdir THEN basename(source.path) \o MaskSuffix
  ELSE stem(source.path) \o MaskSuffix

\* mask_file_name of main()
mask_file_name(mask, source) ==
  LET wfa_id == wfa_fullmatch(mask.expectedSpectrumInquiryResponses[1].requestId)
  IN IF ~IsNone(wfa_id)
       THEN IF Len(mask.expectedSpectrumInquiryResponses) > 1
              THEN AFCS \o <<".">> \o replace_underscores(basename(source.path)) \o MaskSuffix
              ELSE AFCS \o <<".">> \o Val(wfa_id)[1] \o <<".">> \o Val(wfa_id)[2] \o MaskSuffix
       ELSE src_gen_name(source)

(***************************************************************************)
(* The body of the loop over src_files: one file to a skip diagnostic or   *)
(* to the mask appended to mask_set.  A file is [readable, json_ok, obj_ok, *)
(* msg, mask_valid]: whether it can be read as UTF-8 text, whether         *)
(* json.loads and the response constructor accept it, the message it       *)
(* holds, and the answer of the mask validator.                            *)
(***************************************************************************)
\* clear_disallowed that clears whatever the configuration
clear_disallowed_always(mask, config) ==
  [mask EXCEPT !.expectedSpectrumInquiryResponses =
     [i \in 1..Len(@) |-> [@[i] EXCEPT !.disallowedResponseCodes = None]]]

\* The clearing of disallowedResponseCodes under the default behaviour.
clear_disallowed(mask, config) ==
  IF ~DictGet(config, "permit_any_code", FALSE)
    THEN [mask EXCEPT !.expectedSpectrumInquiryResponses =
            [i \in 1..Len(@) |-> [@[i] EXCEPT !.disallowedResponseCodes = None]]]
    ELSE mask

\* convert_file that reports an invalid mask and appends it all the same
convert_file_keep_invalid(file, config) ==
  IF ~file.json_ok THEN [report |-> "not_json", mask |-> None]
  ELSE IF ~file.obj_ok THEN [report |-> "not_response", mask |-> None]
  ELSE LET m == exp_msg_from(Val(file.msg), config)
       IN IF MsgRaised(m) THEN [report |-> "convert_failed", mask |-> None]
          ELSE IF ~file.mask_valid
                 THEN [report |-> "invalid_mask", mask |-> Some(clear_disallowed(m, config))]
          ELSE [report |-> "ok", mask |-> Some(clear_disallowed(m, config))]

\* The loop body from json.loads on, for a file that was read; the warning of
\* the response validator changes nothing and is left out.
convert_file(file, config) ==
  IF ~file.json_ok THEN [report |-> "not_json", mask |-> None]
  ELSE IF ~file.obj_ok THEN [report |-> "not_response", mask |-> None]
  ELSE LET m == exp_msg_from(Val(file.msg), config)
       IN IF MsgRaised(m) THEN [report |-> "convert_failed", mask |-> None]
          ELSE IF ~file.mask_valid THEN [report |-> "invalid_mask", mask |-> None]
          ELSE [report |-> "ok", mask |-> Some(clear_disallowed(m, config))]

(***************************************************************************)
(* The match statement on len(mask_set): the merge of a mask set.          *)
(***************************************************************************)
\* merge_step that merges whatever the versions
merge_step_any_version(acc, mask) ==
  IF ~IsNone(acc.vendorExtensions) /\ IsNone(mask.vendorExtensions)
    THEN [status |-> "TypeError",
          mask |-> [acc EXCEPT !.expectedSpectrumInquiryResponses =
                      @ \o mask.expectedSpectrumInquiryResponses]]
    ELSE [status |-> "merged",
          mask |-> [acc EXCEPT
                      !.expectedSpectrumInquiryResponses =
                        @ \o mask.expectedSpectrumInquiryResponses,
                      !.vendorExtensions =
                        IF ~IsNone(@) THEN Some(Val(@) \o Val(mask.vendorExtensions))
                        ELSE mask.vendorExtensions]]

\* merge_step that puts the new responses in front
merge_step_prepend(acc, mask) ==
  IF acc.version # mask.version
    THEN [status |-> "conflict", mask |-> acc]
  ELSE IF ~IsNone(acc.vendorExtensions) /\ IsNone(mask.vendorExtensions)
    THEN [status |-> "TypeError",
          mask |-> [acc EXCEPT !.expectedSpectrumInquiryResponses =
                      mask.expectedSpectrumInquiryResponses \o @]]
  ELSE [status |-> "merged",
        mask |-> [acc EXCEPT
                    !.expectedSpectrumInquiryResponses =
                      mask.expectedSpectrumInquiryResponses \o @,
                    !.vendorExtensions =
                      IF ~IsNone(@) THEN Some(Val(@) \o Val(mask.vendorExtensions))
                      ELSE mask.vendorExtensions]]

\* One iteration of "for mask in mask_set[1:]".  list.extend(None) raises
\* TypeError, after the responses have been extended.
merge_step(acc, mask) ==
  IF acc.version # mask.version
    THEN [status |-> "conflict", mask |-> acc]
  ELSE IF ~IsNone(acc.vendorExtensions) /\ IsNone(mask.vendorExtensions)
    THEN [status |-> "TypeError",
          mask |-> [acc EXCEPT !.expectedSpectrumInquiryResponses =
                      @ \o mask.expectedSpectrumInquiryResponses]]
  ELSE [status |-> "merged",
        mask |-> [acc EXCEPT
                    !.expectedSpectrumInquiryResponses =
                      @ \o mask.expectedSpectrumInquiryResponses,
                    !.vendorExtensions =
                      IF ~IsNone(@) THEN Some(Val(@) \o Val(mask.vendorExtensions))
                      ELSE mask.vendorExtensions]]

\* The loop from mask_set[i] on: [kind, mask, conflicts], with conflicts the
\* number of "different versions" diagnostics printed.
RECURSIVE merge_from(_, _, _, _)
merge_from(acc, masks, i, conflicts) ==
  IF i > Len(masks) THEN [kind |-> "ok", mask |-> Some(acc), conflicts |-> conflicts]
  ELSE LET step == merge_step(acc, masks[i])
       IN IF step.status = "TypeError"
            THEN [kind |-> "TypeError", mask |-> Some(step.mask), conflicts |-> conflicts]
          ELSE IF step.status = "conflict"
            THEN merge_from(acc, masks, i + 1, conflicts + 1)
          ELSE merge_from(step.mask, masks, i + 1, conflicts)

\* prepare_mask without case 0: mask_set[0] of an empty list raises IndexError
prepare_mask_no_case_0(masks) ==
  IF Len(masks) = 0 THEN [kind |-> "IndexError", mask |-> None, conflicts |-> 0]
  ELSE IF Len(masks) = 1 THEN [kind |-> "ok", mask |-> Some(masks[1]), conflicts |-> 0]
  ELSE merge_from(masks[1], masks, 2, 0)

prepare_mask(masks) ==
  IF Len(masks) = 0 THEN [kind |-> "no_valid", mask |-> None, conflicts |-> 0]
  ELSE IF Len(masks) = 1 THEN [kind |-> "ok", mask |-> Some(masks[1]), conflicts |-> 0]
  ELSE merge_from(masks[1], masks, 2, 0)

(***************************************************************************)
(* Inputs: the requests ids, responses, messages, files, configurations    *)
(* and sources a run draws from.                                           *)
(***************************************************************************)
ReqWfa == <<"R", "E", "Q", "-", "A", "B", "C", "1", "2">>
ReqCustom == <<"C", "U", "S", "T", "O", "M", "-", "1">>
ReqTwoLetters == <<"R", "E", "Q", "-", "A", "B", "1", "2">>
ReqTrailing == <<"R", "E", "Q", "-", "A", "B", "C", "1", "x">>

Response(requestId, responseCode, maxPsd, vendorExtensions) ==
  [requestId |-> requestId,
   rulesetId |-> "US_47_CFR_PART_15_SUBPART_E",
   response |-> [responseCode |-> responseCode],
   availableFrequencyInfo |->
     <<[frequencyRange |-> [lowFrequency |-> 5925, highFrequency |-> 5945],
        maxPsd |-> maxPsd]>>,
   availableChannelInfo |->
     <<[globalOperatingClass |-> 131, channelCfi |-> <<1, 5>>,
        maxEirp |-> <<Float(1), Float(2)>>]>>,
   vendorExtensions |-> vendorExtensions]

Message(version, responses, vendorExtensions) ==
  [version |-> version, availableSpectrumInquiryResponses |-> responses,
   vendorExtensions |-> vendorExtensions]

MsgA == Message("1.4", <<Response(ReqWfa, "SUCCESS", Float(1), None)>>, None)
MsgB == Message("1.4", <<Response(ReqTrailing, "INVALID_VALUE", Float(2), Some(<<"rB">>))>>,
                Some(<<"eB">>))
MsgC == Message("1.3", <<Response(ReqTwoLetters, "GENERAL_FAILURE", Float(0), None)>>,
                Some(<<"eC">>))
MsgD == Message("1.4", <<Response(ReqWfa, "SUCCESS", Float(1), None),
                         Response(ReqCustom, "MISSING_PARAM", Float(2), None)>>, None)
MsgInf == Message("1.4", <<Response(ReqWfa, "SUCCESS", FloatInf, None)>>, None)

Messages == {MsgA, MsgB, MsgC, MsgD, MsgInf}

Files ==
  {[readable |-> FALSE, json_ok |-> FALSE, obj_ok |-> FALSE, msg |-> None,
    mask_valid |-> FALSE],
   [readable |-> TRUE, json_ok |-> FALSE, obj_ok |-> FALSE, msg |-> None,
    mask_valid |-> FALSE],
   [readable |-> TRUE, json_ok |-> TRUE, obj_ok |-> FALSE, msg |-> None,
    mask_valid |-> FALSE]}
  \cup {[readable |-> TRUE, json_ok |-> TRUE, obj_ok |-> TRUE, msg |-> Some(m),
          mask_valid |-> v] : m \in Messages, v \in BOOLEAN}

Configs ==
  {<<>>,
   [exclude_extensions |-> FALSE, permit_any_code |-> TRUE],
   [exclude_extensions |-> FALSE, expect_less_specific_error |-> FALSE,
    psd_limits |-> [upper |-> Float(1)]],
   [permit_any_code |-> FALSE, exclude_extensions |-> TRUE,
    psd_margins |-> [upper |-> Float(1), lower |-> Float(1)],
    eirp_margins |-> [lower |-> Float(2)], eirp_limits |-> [lower |-> Float(0)]]}

\* "t/c_v", "c_v/" and "t/m_r.json"
Sources ==
  {[isdir |-> TRUE, path |-> <<"t", "/", "c", "_", "v">>],
   [isdir |-> TRUE, path |-> <<"c", "_", "v", "/">>],
   [isdir |-> FALSE, path |-> <<"t", "/", "m", "_", "r", ".", "j", "s", "o", "n">>]}

NoResult == [kind |-> "none", name |-> <<>>]
NoCall == [op |-> "none"]

(***************************************************************************)
(* main()                                                                  *)
(***************************************************************************)
Init ==
  /\ pc = "start"
  /\ cfg = <<>>
  /\ assume_yes = FALSE
  /\ src_idx = 0
  /\ src = [isdir |-> FALSE, path |-> <<>>]
  /\ file_idx = 0
  /\ mask_set = <<>>
  /\ mask_obj = None
  /\ converted = <<>>
  /\ reports = <<>>
  /\ result = NoResult
  /\ call = NoCall

\* Argument parsing and the load of the configuration; a configuration that
\* cannot be read or parsed ends the run with sys.exit(1).
LoadCfg ==
  /\ pc = "start"
  /\ \E yes \in BOOLEAN :
       /\ assume_yes' = yes
       /\ \/ /\ pc' = "exit1"
             /\ cfg' = cfg
          \/ /\ \E c \in Configs : cfg' = c
             /\ pc' = "next_src"
  /\ UNCHANGED <<src_idx, src, file_idx, mask_set, mask_obj, converted, reports, result, call>>

\* The head of one iteration of "for src_path in args.src".
BeginSrc ==
  /\ pc = "next_src"
  /\ src_idx < MaxSrcs
  /\ \E s \in Sources : src' = s
  /\ src_idx' = src_idx + 1
  /\ file_idx' = 0
  /\ mask_set' = <<>>
  /\ mask_obj' = None
  /\ converted' = <<>>
  /\ reports' = <<>>
  /\ result' = NoResult
  /\ pc' = "files"
  /\ UNCHANGED <<cfg, assume_yes, call>>

\* One iteration of "for src_file in src_files": a directory holds up to
\* MaxFiles files, a file source is its own only file.  The exception of
\* open() or read() is not caught and ends the run.
ConvertFile ==
  /\ pc = "files"
  /\ file_idx < (IF src.isdir THEN MaxFiles ELSE 1)
  /\ \E file \in Files :
       IF ~file.readable
         THEN /\ pc' = "crashed"
              /\ UNCHANGED <<reports, mask_set, converted>>
         ELSE LET r == convert_file(file, cfg)
              IN /\ reports' = IF r.report = "ok" THEN reports
                               ELSE Append(reports, r.report)
                 /\ mask_set' = IF IsNone(r.mask) THEN mask_set
                                ELSE Append(mask_set, Val(r.mask))
                 /\ converted' = IF IsNone(r.mask) THEN converted
                                 ELSE Append(converted, Val(r.mask))
                 /\ pc' = pc
  /\ file_idx' = file_idx + 1
  /\ UNCHANGED <<cfg, assume_yes, src_idx, src, mask_obj, result, call>>

\* The rest of the iteration once src_files is exhausted: the merge, the file
\* name, the prompts and the write.  mask_obj is mask_set[0], so that the
\* merge shows in mask_set too.  Whether the output file and the output
\* directory exist, and what the user answers, are inputs.
FinishSrc ==
  /\ pc = "files"
  /\ src.isdir \/ file_idx = 1
  /\ LET p == prepare_mask(mask_set)
         conflicts == [i \in 1..p.conflicts |-> "version_conflict"]
     IN IF p.kind = "no_valid"
          THEN /\ reports' = Append(reports, "no_valid_responses")
               /\ result' = [kind |-> "no_valid", name |-> <<>>]
               /\ pc' = "next_src"
               /\ UNCHANGED <<mask_set, mask_obj>>
        ELSE IF p.kind # "ok"
          THEN /\ reports' = reports \o conflicts
               /\ result' = [kind |-> p.kind, name |-> <<>>]
               /\ pc' = "crashed"
               /\ mask_obj' = p.mask
               /\ mask_set' = IF IsNone(p.mask) THEN mask_set
                              ELSE [mask_set EXCEPT ![1] = Val(p.mask)]
        ELSE /\ mask_obj' = p.mask
             /\ mask_set' = [mask_set EXCEPT ![1] = Val(p.mask)]
             /\ \E file_exists \in BOOLEAN, dir_exists \in BOOLEAN, answer \in BOOLEAN :
                  IF ~assume_yes /\ file_exists /\ ~answer
                    THEN /\ reports' = (reports \o conflicts) \o <<"output_skipped">>
                         /\ result' = [kind |-> "user_skip", name |-> <<>>]
                         /\ pc' = "next_src"
                  ELSE IF ~assume_yes /\ ~dir_exists /\ ~answer
                    THEN /\ reports' = (reports \o conflicts) \o <<"no_output_dir">>
                         /\ result' = [kind |-> "aborted", name |-> <<>>]
                         /\ pc' = "exit1"
                  ELSE /\ reports' = reports \o conflicts
                       /\ result' = [kind |-> "written",
                                     name |-> mask_file_name(Val(p.mask), src)]
                       /\ pc' = "next_src"
  /\ UNCHANGED <<cfg, assume_yes, src_idx, src, file_idx, converted, call>>

\* args.src is exhausted (it holds at least one entry).
Exit ==
  /\ pc = "next_src"
  /\ src_idx >= 1
  /\ pc' = "done"
  /\ UNCHANGED <<cfg, assume_yes, src_idx, src, file_idx, mask_set, mask_obj,
                 converted, reports, result, call>>

Next == LoadCfg \/ BeginSrc \/ ConvertFile \/ FinishSrc \/ Exit

Spec == Init /\ [][Next]_vars

(***************************************************************************)
(* The conversion library called on its own: exp_range_from and            *)
(* exp_resp_from applied to arguments drawn from bounded sets.             *)
(***************************************************************************)
\* The dicts with keys among "upper" and "lower" and values in V.
Dicts(V) == UNION {[S -> V] : S \in SUBSET {"upper", "lower"}}
Optional(S) == {None} \cup {Some(x) : x \in S}

Finite == {Float(n) : n \in (0 - MaxVal)..MaxVal}
NominalValues == Finite \cup {FloatInf}
MarginValues == {Float(n) : n \in (0 - 1)..MaxMargin} \cup {FloatInf}
UpperLimits == Finite \cup {FloatInf}
LowerLimits == Finite \cup {FloatNegInf}
LimitDicts ==
  {d \in Dicts(UpperLimits \cup LowerLimits) :
     /\ "upper" \in DOMAIN d => d.upper \in UpperLimits
     /\ "lower" \in DOMAIN d => d.lower \in LowerLimits}

ResponseCodes == {"SUCCESS", "GENERAL_FAILURE", "INVALID_VALUE", "MISSING_PARAM"}
FlagKeys == {"expect_less_specific_error", "permit_any_code", "exclude_extensions"}
FlagDicts == UNION {[S -> BOOLEAN] : S \in SUBSET FlagKeys}

CallExpRangeFrom ==
  /\ call = NoCall
  /\ \E nominal_value \in NominalValues, margins \in Optional(Dicts(MarginValues)),
        limits \in Optional(LimitDicts) :
       call' = [op |-> "exp_range_from", nominal_value |-> nominal_value,
                margins |-> margins, limits |-> limits,
                ret |-> exp_range_from(nominal_value, margins, limits)]
  /\ UNCHANGED driver_vars

CallExpRespFrom ==
  /\ call = NoCall
  /\ \E code \in ResponseCodes, ext \in {None, Some(<<"rB">>)}, kwargs \in FlagDicts :
       LET resp == Response(ReqWfa, code, Float(1), ext)
       IN call' = [op |-> "exp_resp_from", resp |-> resp, kwargs |-> kwargs,
                   ret |-> exp_resp_from(resp, kwargs)]
  /\ UNCHANGED driver_vars

\* The caller is done with the value returned and may call again.
Return ==
  /\ call # NoCall
  /\ call' = NoCall
  /\ UNCHANGED driver_vars

NextLib == CallExpRangeFrom \/ CallExpRespFrom \/ Return

SpecLib == Init /\ [][NextLib]_vars

(***************************************************************************)
(* Properties.                                                             *)
(***************************************************************************)
Responses(mask) == mask.expectedSpectrumInquiryResponses

\* The concatenation of the sequences of a sequence, in order.
RECURSIVE Flatten(_)
Flatten(seqs) == IF seqs = <<>> THEN <<>> ELSE Head(seqs) \o Flatten(Tail(seqs))

ResponseLists(masks) == [i \in 1..Len(masks) |-> Responses(masks[i])]

\* An extension list with None read as the empty list.
ExtensionList(o) == IF IsNone(o) THEN <<>> ELSE Val(o)
ExtensionLists(masks) == [i \in 1..Len(masks) |-> ExtensionList(masks[i].vendorExtensions)]

SameVersion(masks) == \A i \in 1..Len(masks) : masks[i].version = masks[1].version
SameVersionAsFirst(mask) == mask.version = converted[1].version

\* The loop over the files of the response set has ended and the rest of the
\* iteration has run.
Finished == result.kind # "none"
\* The merge of the mask set has run to its end.
MergeDone == result.kind \in {"written", "user_skip", "aborted"}
Written == result.kind = "written"

----
\* The margins and limits in force in the call, and the nominal value clamped.
C1_Margin(key) ==
  IF IsNone(call.margins) \/ key \notin DOMAIN Val(call.margins)
    THEN (IF key = "upper" THEN DecimalZero ELSE DecimalInf)
    ELSE Val(call.margins)[key]

C1_Limit(key) ==
  IF IsNone(call.limits) \/ key \notin DOMAIN Val(call.limits)
    THEN (IF key = "upper" THEN DecimalInf ELSE DecimalNegInf)
    ELSE Val(call.limits)[key]

C1_Pre ==
  /\ call.op = "exp_range_from"
  /\ call.nominal_value.k = "fin"
  /\ NumLe(DecimalZero, C1_Margin("upper"))
  /\ NumLe(DecimalZero, C1_Margin("lower"))
  /\ NumLe(C1_Limit("lower"), C1_Limit("upper"))

C1_Clamped ==
  IF NumLt(call.nominal_value, C1_Limit("lower")) THEN C1_Limit("lower")
  ELSE IF NumLt(C1_Limit("upper"), call.nominal_value) THEN C1_Limit("upper")
  ELSE call.nominal_value

\* C1: for a finite nominal value, margins >= 0 (or +infinity) and limits with
\* lower <= upper, exp_range_from returns a range with
\* limits.lower <= lowerBound <= nominal' <= upperBound <= limits.upper, where
\* nominal' is the nominal value clamped into the limits.
C1_RangeWithinLimits ==
  C1_Pre =>
    /\ ~call.ret.raised
    /\ NumEq(call.ret.nominal, C1_Clamped)
    /\ NumLe(C1_Limit("lower"), call.ret.lowerBound)
    /\ NumLe(call.ret.lowerBound, call.ret.nominal)
    /\ NumLe(call.ret.nominal, call.ret.upperBound)
    /\ NumLe(call.ret.upperBound, C1_Limit("upper"))

\* A call where the nominal value is clamped and the upper margin is cut by the limit.
C1_Witness ==
  /\ C1_Pre
  /\ ~NumEq(call.ret.nominal, call.nominal_value)
  /\ NumLt(DecimalZero, C1_Margin("upper"))
  /\ NumEq(call.ret.upperBound, C1_Limit("upper"))
  /\ NumLt(call.ret.lowerBound, call.ret.nominal)

----
\* C2: when a mask set of two or more documents holds a document after the
\* first whose version differs from the first's, no mask file is written for
\* the response set.
C2_VersionMismatchRejectsSet ==
  (/\ Finished
   /\ Len(converted) >= 2
   /\ \E i \in 2..Len(converted) : converted[i].version # converted[1].version)
  => ~Written

----
\* C3: when all the converted documents of a response set carry the same
\* version, the response list of the merged mask is the concatenation of the
\* documents' response lists in input order; one document is the result unchanged.
C3_ResponsesConcatenated ==
  (MergeDone /\ SameVersion(converted)) =>
    /\ Responses(Val(mask_obj)) = Flatten(ResponseLists(converted))
    /\ Len(converted) = 1 => Val(mask_obj) = converted[1]

\* Three documents of one version, two of them the same, merged and written.
C3_Witness ==
  /\ Written
  /\ Len(converted) = 3
  /\ SameVersion(converted)
  /\ converted[1] = converted[2]
  /\ converted[3] # converted[1]
  /\ Len(Responses(Val(mask_obj))) >= 3

----
\* C4: the merge of same-version documents completes without error whatever
\* extension lists are set, and the merged mask's vendor extensions are the
\* concatenation of the documents' extension lists, an unset list read as empty.
C4_ExtensionsConcatenated ==
  (Finished /\ Len(converted) >= 1 /\ SameVersion(converted)) =>
    /\ result.kind # "TypeError"
    /\ ExtensionList(Val(mask_obj).vendorExtensions) = Flatten(ExtensionLists(converted))

----
\* C5 as claimed: a document whose mask fails validation keeps the whole
\* response set from being written.
C5_InvalidMaskDiscardsSet ==
  Written => \A i \in 1..Len(reports) : reports[i] # "invalid_mask"

\* C5 as amended: a document whose mask fails validation is reported and left
\* out of the mask set, the loop goes on with the next file, and the response
\* set is dropped as having no valid responses exactly when no document of it
\* gave a valid mask.
C5_InvalidMaskSkipsFile ==
  /\ [][(/\ pc = "files"
         /\ Len(reports') = Len(reports) + 1
         /\ reports'[Len(reports')] = "invalid_mask")
        => (/\ mask_set' = mask_set
            /\ pc' = "files"
            /\ file_idx' = file_idx + 1)]_vars
  /\ [](Finished => (result.kind = "no_valid" <=> Len(converted) = 0))

\* A response set written although one of its documents failed validation.
C5_Witness ==
  /\ Written
  /\ \E i \in 1..Len(reports) : reports[i] = "invalid_mask"
  /\ Len(converted) >= 1

----
\* What the configuration asks of disallowedResponseCodes.
C6_Expected == IF DictGet(cfg, "permit_any_code", FALSE) THEN Some(<<>>) ELSE None

\* C6: in every mask of the mask set, and so in every mask written, each
\* response's disallowedResponseCodes is unset when the configuration's
\* permit_any_code is false or absent and the empty list when it is true.
C6_DisallowedFollowsConfig ==
  /\ \A i \in 1..Len(mask_set) : \A j \in 1..Len(Responses(mask_set[i])) :
       Responses(mask_set[i])[j].disallowedResponseCodes = C6_Expected
  /\ Written => \A j \in 1..Len(Responses(Val(mask_obj))) :
       Responses(Val(mask_obj))[j].disallowedResponseCodes = C6_Expected

\* A merged mask written under permit_any_code = true.
C6_Witness ==
  /\ Written
  /\ DictGet(cfg, "permit_any_code", FALSE)
  /\ Len(converted) >= 2
  /\ \A j \in 1..Len(Responses(Val(mask_obj))) :
       Responses(Val(mask_obj))[j].disallowedResponseCodes = Some(<<>>)

----
\* The flag in force, the code of the response and the set of codes returned.
C7_Flag == DictGet(call.kwargs, "expect_less_specific_error", TRUE)
C7_Code == call.resp.response.responseCode
C7_Codes == {call.ret.expectedResponseCodes[i] : i \in 1..Len(call.ret.expectedResponseCodes)}

\* C7: expectedResponseCodes is {responseCode, GENERAL_FAILURE} exactly when
\* expect_less_specific_error is true and responseCode is neither SUCCESS nor
\* GENERAL_FAILURE, and {responseCode} in every other case.
C7_ExpectedCodes ==
  call.op = "exp_resp_from" =>
    /\ C7_Codes = IF C7_Flag /\ C7_Code \notin {"SUCCESS", "GENERAL_FAILURE"}
                    THEN {C7_Code, "GENERAL_FAILURE"}
                    ELSE {C7_Code}
    /\ Len(call.ret.expectedResponseCodes) = Cardinality(C7_Codes)

\* A specific error code relaxed by the default value of the flag.
C7_Witness ==
  /\ call.op = "exp_resp_from"
  /\ "expect_less_specific_error" \notin DOMAIN call.kwargs
  /\ C7_Code = "INVALID_VALUE"
  /\ call.ret.expectedResponseCodes = <<"INVALID_VALUE", "GENERAL_FAILURE">>

----
\* The names of the source: path components, a trailing "/" set aside.
C8_StripSlash(p) == IF Len(p) > 0 /\ p[Len(p)] = "/" THEN SubSeq(p, 1, Len(p) - 1) ELSE p
C8_LastComponent(p) == basename(C8_StripSlash(p))
C8_Parent(p) == SubSeq(p, 1, LastIndexOf(p, "/") - 1)
\* The directory the responses of the set lie in.
C8_SourceDirName(source) ==
  IF source.isdir THEN C8_LastComponent(source.path)
  ELSE C8_LastComponent(C8_Parent(source.path))
C8_SourceBaseName(source) ==
  IF source.isdir THEN C8_LastComponent(source.path) ELSE stem(source.path)

C8_Name ==
  LET id == wfa_fullmatch(Responses(Val(mask_obj))[1].requestId)
  IN IF ~IsNone(id) /\ Len(Responses(Val(mask_obj))) = 1
       THEN AFCS \o <<".">> \o Val(id)[1] \o <<".">> \o Val(id)[2] \o MaskSuffix
     ELSE IF ~IsNone(id)
       THEN AFCS \o <<".">> \o replace_underscores(C8_SourceDirName(src)) \o MaskSuffix
     ELSE C8_SourceBaseName(src) \o MaskSuffix

\* C8: the file written is named AFCS.<letters>.<digits>_mask.json when the
\* first request id matches REQ-<3 letters><digits> and the mask has one
\* response, AFCS.<source directory name, "_" replaced by ".">_mask.json when
\* it matches and the mask has more responses, and <source file or directory
\* base name>_mask.json otherwise (the extension stripped for a file).
C8_MaskFileName == Written => result.name = C8_Name

----
\* C9: a response set none of whose files gives a valid mask is reported as
\* having no valid responses, nothing is written for it, and the run goes on
\* with the loop over the response sets.
C9_EmptySetSkipped ==
  (Finished /\ Len(converted) = 0) =>
    /\ result.kind = "no_valid"
    /\ Len(reports) >= 1 /\ reports[Len(reports)] = "no_valid_responses"
    /\ IsNone(mask_obj)
    /\ pc \in {"next_src", "done"}
    /\ (pc = "next_src" /\ src_idx < MaxSrcs) => ENABLED BeginSrc

\* A directory whose three files were all skipped, with sets left to process.
C9_Witness ==
  /\ pc = "next_src"
  /\ src_idx < MaxSrcs
  /\ result.kind = "no_valid"
  /\ file_idx = 3
  /\ \E i \in 1..Len(reports) : reports[i] = "invalid_mask"
  /\ \E i \in 1..Len(reports) : reports[i] = "convert_failed"

----
\* C10: a mask written carries the version of the first converted document,
\* and its responses are those of the converted documents of that version, in
\* order: no response of a document of another version is in it.
C10_WrittenVersion ==
  Written =>
    /\ Val(mask_obj).version = converted[1].version
    /\ Responses(Val(mask_obj)) =
         Flatten(ResponseLists(SelectSeq(converted, SameVersionAsFirst)))

\* A mask written from a set that held a document of another version.
C10_Witness ==
  /\ Written
  /\ Len(converted) = 3
  /\ converted[2].version # converted[1].version
  /\ converted[3].version = converted[1].version

====
